---- MODULE Spec2Model ----
(***************************************************************************)
(* Verification model of the self-correcting query agent of Saas_rag:      *)
(*   backend/app/utils/query_cleaner.py     (QueryCleaner, clean_query)    *)
(*   backend/app/services/query_validator.py (QueryValidator)              *)
(*   backend/app/agents/sql_agent.py        (SQLAgent, LangGraph workflow) *)
(*                                                                         *)
(* Texts are sequences of one-character strings, so that strip(), upper(), *)
(* substring tests and the regular expressions of the source are computed  *)
(* character by character.  Messages are records [msg, arg]: the fixed     *)
(* part of the Python f-string and the value interpolated into it.         *)
(***************************************************************************)
EXTENDS Integers, Sequences, FiniteSets, TLC

(***************************************************************************)
(* Python string primitives                                                *)
(***************************************************************************)
LowerLetters ==
    <<"a","b","c","d","e","f","g","h","i","j","k","l","m",
      "n","o","p","q","r","s","t","u","v","w","x","y","z">>

UpperLetters ==
    <<"A","B","C","D","E","F","G","H","I","J","K","L","M",
      "N","O","P","Q","R","S","T","U","V","W","X","Y","Z">>

Digits == {"0","1","2","3","4","5","6","7","8","9"}

IndexIn(c, letters) == CHOOSE i \in 1..Len(letters) : letters[i] = c

IsLower(c) == \E i \in 1..Len(LowerLetters) : LowerLetters[i] = c

IsUpper(c) == \E i \in 1..Len(UpperLetters) : UpperLetters[i] = c

UpperChar(c) == IF IsLower(c) THEN UpperLetters[IndexIn(c, LowerLetters)] ELSE c

LowerChar(c) == IF IsUpper(c) THEN LowerLetters[IndexIn(c, UpperLetters)] ELSE c

\* str.upper()
upper(s) == [i \in 1..Len(s) |-> UpperChar(s[i])]

\* str.lower()
lower(s) == [i \in 1..Len(s) |-> LowerChar(s[i])]

\* the characters str.strip() removes and the regex class \s matches
IsSpace(c) == c \in {" ", "\n", "\t"}

\* the regex class \w
IsWordChar(c) == IsLower(c) \/ IsUpper(c) \/ c \in Digits \/ c = "_"

MinOf(S) == CHOOSE x \in S : \A y \in S : x <= y

MaxOf(S) == CHOOSE x \in S : \A y \in S : y <= x

\* str.strip()
strip(s) ==
    LET keep == {i \in 1..Len(s) : ~IsSpace(s[i])}
    IN  IF keep = {} THEN <<>> ELSE SubSeq(s, MinOf(keep), MaxOf(keep))

\* str.rstrip()
rstrip(s) ==
    LET keep == {i \in 1..Len(s) : ~IsSpace(s[i])}
    IN  IF keep = {} THEN <<>> ELSE SubSeq(s, 1, MaxOf(keep))

\* the literal p occurs in s at index i
MatchAt(p, s, i) ==
    /\ i >= 1
    /\ i + Len(p) - 1 <= Len(s)
    /\ \A j \in 1..Len(p) : s[i + j - 1] = p[j]

\* the literal p occurs in s at index i, letter case ignored (re.IGNORECASE)
MatchAtCI(p, s, i) ==
    /\ i >= 1
    /\ i + Len(p) - 1 <= Len(s)
    /\ \A j \in 1..Len(p) : UpperChar(s[i + j - 1]) = UpperChar(p[j])

\* p in s
Contains(p, s) == \E i \in 1..Len(s) : MatchAt(p, s, i)

\* s.startswith(p)
startswith(s, p) == MatchAt(p, s, 1)

\* s.endswith(p)
endswith(s, p) == MatchAt(p, s, Len(s) - Len(p) + 1)

\* first index >= i of s that holds no white space (Len(s)+1 if none): \s*
SkipSpace(s, i) ==
    LET stop == {j \in i..Len(s) : ~IsSpace(s[j])}
    IN  IF stop = {} THEN Len(s) + 1 ELSE MinOf(stop)

\* first index >= i of s that holds no word character: \w*
SkipWord(s, i) ==
    LET stop == {j \in i..Len(s) : ~IsWordChar(s[j])}
    IN  IF stop = {} THEN Len(s) + 1 ELSE MinOf(stop)

\* first index >= i where the literal p occurs in s, 0 if none
FindFrom(p, s, i) ==
    LET hit == {j \in i..Len(s) : MatchAt(p, s, j)}
    IN  IF hit = {} THEN 0 ELSE MinOf(hit)

\* the permutations of a finite set, as sequences: the iteration orders of
\* a Python set
Perms(S) ==
    {f \in [1..Cardinality(S) -> S] :
        \A i, j \in 1..Cardinality(S) : i # j => f[i] # f[j]}

Msg(m, a) == [msg |-> m, arg |-> a]

(***************************************************************************)
(* QueryValidator  (app/services/query_validator.py)                       *)
(***************************************************************************)
kwSELECT   == <<"S","E","L","E","C","T">>
kwEXPLAIN  == <<"E","X","P","L","A","I","N">>
kwDESCRIBE == <<"D","E","S","C","R","I","B","E">>
kwSHOW     == <<"S","H","O","W">>
kwWITH     == <<"W","I","T","H">>
kwINSERT   == <<"I","N","S","E","R","T">>
kwUPDATE   == <<"U","P","D","A","T","E">>
kwDELETE   == <<"D","E","L","E","T","E">>
kwDROP     == <<"D","R","O","P">>
kwCREATE   == <<"C","R","E","A","T","E">>
kwALTER    == <<"A","L","T","E","R">>
kwTRUNCATE == <<"T","R","U","N","C","A","T","E">>
kwGRANT    == <<"G","R","A","N","T">>
kwREVOKE   == <<"R","E","V","O","K","E">>
kwEXEC     == <<"E","X","E","C">>
kwEXECUTE  == <<"E","X","E","C","U","T","E">>
kwMERGE    == <<"M","E","R","G","E">>
kwUPSERT   == <<"U","P","S","E","R","T">>
kwREPLACE  == <<"R","E","P","L","A","C","E">>
kwFROM     == <<"F","R","O","M">>
kwWHERE    == <<"W","H","E","R","E">>
kwLIMIT    == <<"L","I","M","I","T">>
kwUNION    == <<"U","N","I","O","N">>
kwTABLE    == <<"T","A","B","L","E">>
kwOR       == <<"O","R">>
kwAND      == <<"A","N","D">>

ALLOWED_STATEMENTS == {kwSELECT, kwEXPLAIN, kwDESCRIBE, kwSHOW, kwWITH}

FORBIDDEN_KEYWORDS ==
    {kwINSERT, kwUPDATE, kwDELETE, kwDROP, kwCREATE, kwALTER, kwTRUNCATE,
     kwGRANT, kwREVOKE, kwEXEC, kwEXECUTE, kwMERGE, kwUPSERT, kwREPLACE}

\* the sources of the regular expressions, in list order
DANGEROUS_PATTERNS ==
    << <<";","\\","s","*","D","R","O","P","\\","s","+">>,
       <<";","\\","s","*","D","E","L","E","T","E","\\","s","+">>,
       <<"-","-">>,
       <<"/","\\","*">>,
       <<"U","N","I","O","N","\\","s","+","S","E","L","E","C","T">>,
       <<"1","\\","s","*","=","\\","s","*","1">>,
       <<"O","R","\\","s","+","\\","'","\\","w","+","\\","'","\\","s","*","=",
         "\\","s","*","\\","'","\\","w","+","\\","'">> >>

\* ;\s*KW\s+ at index i
SemiThenKeywordAt(kw, s, i) ==
    /\ MatchAt(<<";">>, s, i)
    /\ LET j == SkipSpace(s, i + 1)
       IN  /\ MatchAtCI(kw, s, j)
           /\ j + Len(kw) <= Len(s)
           /\ IsSpace(s[j + Len(kw)])

\* '\w+' at index i: the index after the closing quote, 0 if no match
QuotedWordEnd(s, i) ==
    IF i > Len(s) \/ s[i] # "'" THEN 0
    ELSE LET k == SkipWord(s, i + 1)
         IN  IF k > i + 1 /\ k <= Len(s) /\ s[k] = "'" THEN k + 1 ELSE 0

\* re.search(DANGEROUS_PATTERNS[n], s, re.IGNORECASE)
PatternMatches(n, s) ==
    CASE n = 1 -> \E i \in 1..Len(s) : SemiThenKeywordAt(kwDROP, s, i)
      [] n = 2 -> \E i \in 1..Len(s) : SemiThenKeywordAt(kwDELETE, s, i)
      [] n = 3 -> Contains(<<"-","-">>, s)
      [] n = 4 -> Contains(<<"/","*">>, s)
      [] n = 5 -> \E i \in 1..Len(s) :
                    /\ MatchAtCI(kwUNION, s, i)
                    /\ LET j == SkipSpace(s, i + 5)
                       IN  j > i + 5 /\ MatchAtCI(kwSELECT, s, j)
      [] n = 6 -> \E i \in 1..Len(s) :
                    /\ s[i] = "1"
                    /\ LET j == SkipSpace(s, i + 1)
                       IN  /\ MatchAt(<<"=">>, s, j)
                           /\ MatchAt(<<"1">>, s, SkipSpace(s, j + 1))
      [] n = 7 -> \E i \in 1..Len(s) :
                    /\ MatchAtCI(kwOR, s, i)
                    /\ LET j == SkipSpace(s, i + 2)
                           k == QuotedWordEnd(s, j)
                           e == SkipSpace(s, k)
                       IN  /\ j > i + 2
                           /\ k # 0
                           /\ MatchAt(<<"=">>, s, e)
                           /\ QuotedWordEnd(s, SkipSpace(s, e + 1)) # 0

(* sqlparse, as far as validate depends on it.  A text is cut into lexemes:
   a line break, a semicolon, a line comment up to the end of its line, or a
   maximal run of other characters.  *)
LexemeEnd(s, i) ==
    IF s[i] = "\n" \/ s[i] = ";" THEN i + 1
    ELSE IF MatchAt(<<"-","-">>, s, i)
    THEN LET nl == FindFrom(<<"\n">>, s, i) IN IF nl = 0 THEN Len(s) + 1 ELSE nl
    ELSE LET stop == {j \in (i + 1)..Len(s) :
                        IsSpace(s[j]) \/ s[j] = ";" \/ MatchAt(<<"-","-">>, s, j)}
         IN  IF stop = {} THEN Len(s) + 1 ELSE MinOf(stop)

RECURSIVE LexFrom(_, _)
LexFrom(s, i) ==
    IF i > Len(s) THEN <<>>
    ELSE IF s[i] = " " \/ s[i] = "\t" THEN LexFrom(s, i + 1)
    ELSE <<SubSeq(s, i, LexemeEnd(s, i) - 1)>> \o LexFrom(s, LexemeEnd(s, i))

Lex(s) == LexFrom(s, 1)

SqlKeywords ==
    ALLOWED_STATEMENTS \cup (FORBIDDEN_KEYWORDS \ {kwUPSERT})
        \cup {kwFROM, kwWHERE, kwLIMIT, kwUNION, kwTABLE, kwOR, kwAND}

\* the token type sqlparse gives a lexeme
LexKind(w) ==
    IF w = <<"\n">> THEN "newline"
    ELSE IF MatchAt(<<"-","-">>, w, 1) THEN "comment"
    ELSE IF w \in {<<";">>, <<"*">>, <<"=">>, <<",">>} THEN "punctuation"
    ELSE IF \A i \in 1..Len(w) : w[i] \in Digits THEN "number"
    ELSE IF upper(w) \in SqlKeywords THEN "keyword"
    ELSE "name"

\* sqlparse's statement splitter: a statement ends at a semicolon; white
\* space and line comments that follow it still belong to it
RECURSIVE SplitFrom(_, _, _, _)
SplitFrom(toks, i, cur, afterSemi) ==
    IF i > Len(toks)
    THEN IF \E k \in 1..Len(cur) : LexKind(cur[k]) # "newline" THEN <<cur>> ELSE <<>>
    ELSE IF afterSemi /\ LexKind(toks[i]) \notin {"newline", "comment"}
    THEN <<cur>> \o SplitFrom(toks, i, <<>>, FALSE)
    ELSE SplitFrom(toks, i + 1, Append(cur, toks[i]),
                   afterSemi \/ toks[i] = <<";">>)

\* sqlparse.parse(query): the statements, each a sequence of lexemes
sqlparse_parse(query) == SplitFrom(Lex(query), 1, <<>>, FALSE)

None == <<>>

\* the first keyword leaf or the first token of the first group; None if
\* the statement has neither
get_first_keyword(statement) ==
    LET cand == {k \in 1..Len(statement) :
                    LexKind(statement[k]) \in {"keyword", "name", "comment"}}
    IN  IF cand = {} THEN None ELSE statement[MinOf(cand)]

\* the values of all Name tokens of the statement
extract_tables(statement) ==
    {statement[k] : k \in {j \in 1..Len(statement) : LexKind(statement[j]) = "name"}}

\* the lexemes sqlparse's reindent filter starts a new line at
SplitWords == {kwFROM, kwWHERE, kwLIMIT, kwUNION, kwOR, kwAND}

RECURSIVE FormatFrom(_, _)
FormatFrom(toks, i) ==
    IF i > Len(toks) THEN <<>>
    ELSE LET t   == toks[i]
             out == IF LexKind(t) = "keyword" THEN upper(t) ELSE t
             sep == IF i = 1 \/ t = <<";">> \/ t = <<"\n">> THEN <<>>
                    ELSE IF toks[i - 1] = <<"\n">> THEN <<>>
                    ELSE IF upper(t) \in SplitWords THEN <<"\n">>
                    ELSE <<" ">>
         IN  sep \o out \o FormatFrom(toks, i + 1)

\* sqlparse.format(query, reindent=True, keyword_case='upper')
sqlparse_format(query) == strip(FormatFrom(Lex(query), 1))

ValidationResult(is_valid, errors, warnings, normalized_query) ==
    [is_valid |-> is_valid, errors |-> errors, warnings |-> warnings,
     normalized_query |-> normalized_query]

\* Layer 3 scanning the text as written, without upper()
ForbiddenFound_as_written(query) == {kw \in FORBIDDEN_KEYWORDS : Contains(kw, query)}

\* Layer 3: the keywords found in the upper-cased text
ForbiddenFound(query) == {kw \in FORBIDDEN_KEYWORDS : Contains(kw, upper(query))}

\* Layer 4: the first pattern of the list that matches, 0 if none
FirstPattern(query) ==
    LET hit == {n \in 1..Len(DANGEROUS_PATTERNS) : PatternMatches(n, query)}
    IN  IF hit = {} THEN 0 ELSE MinOf(hit)

\* Layer 5 applied to an empty allow-list as well: no table is allowed
NotWhitelisted_unskipped(statement, allowed_tables) ==
    {t \in extract_tables(statement) :
        lower(t) \notin {lower(a) : a \in allowed_tables}}

\* Layer 5: the referenced tables that are not in the allow-list
NotWhitelisted(statement, allowed_tables) ==
    IF allowed_tables = {} THEN {}
    ELSE {t \in extract_tables(statement) :
            lower(t) \notin {lower(a) : a \in allowed_tables}}

(* validate with the keyword and pattern scans of Layers 3 and 4 applied
   before the statement count and statement type of Layers 1 and 2 *)
validate_scan_first(query0, allowed_tables) ==
    IF strip(query0) = <<>>
    THEN {ValidationResult(FALSE, <<Msg("Empty query", <<>>)>>, <<>>, <<>>)}
    ELSE
    LET query       == strip(query0)
        parsed      == sqlparse_parse(query)
        statement   == parsed[1]
        first_token == get_first_keyword(statement)
        query_upper == upper(query)
    IN
    IF parsed = <<>>
    THEN {ValidationResult(FALSE, <<Msg("Failed to parse SQL query", <<>>)>>, <<>>, query)}
    ELSE IF ForbiddenFound(query) # {}
    THEN {ValidationResult(FALSE,
            <<Msg("Query contains forbidden keyword: {forbidden}", kw)>>, <<>>, query) :
          kw \in ForbiddenFound(query)}
    ELSE IF FirstPattern(query) # 0
    THEN {ValidationResult(FALSE,
            <<Msg("Potential SQL injection pattern detected: {pattern}",
                  DANGEROUS_PATTERNS[FirstPattern(query)])>>, <<>>, query)}
    ELSE IF Len(parsed) > 1
    THEN {ValidationResult(FALSE,
            <<Msg("Multiple SQL statements detected. Only single statements allowed.", <<>>)>>,
            <<>>, query)}
    ELSE IF first_token = None
    THEN {ValidationResult(FALSE,
            <<Msg("Could not identify SQL statement type", <<>>)>>, <<>>, query)}
    ELSE IF upper(first_token) \notin ALLOWED_STATEMENTS
    THEN {ValidationResult(FALSE,
            <<Msg("Forbidden SQL operation: {first_token}. Only read-only queries allowed.",
                  first_token)>>, <<>>, query)}
    ELSE
    LET bad      == NotWhitelisted(statement, allowed_tables)
        warnings == IF Contains(kwLIMIT, query_upper) THEN <<>>
                    ELSE <<Msg("Query missing LIMIT clause. May return large result sets.", <<>>)>>
    IN  {ValidationResult(bad = {},
            [i \in 1..Cardinality(bad) |-> Msg("Table not in whitelist: {table}", order[i])],
            warnings, sqlparse_format(query)) :
         order \in Perms(bad)}

(* QueryValidator.validate of a validator constructed with allowed_tables.
   The result is a set: FORBIDDEN_KEYWORDS and the referenced tables are
   Python sets, whose iteration order decides which keyword is reported and
   in which order the table errors are listed.  *)
validate(query0, allowed_tables) ==
    IF strip(query0) = <<>>
    THEN {ValidationResult(FALSE, <<Msg("Empty query", <<>>)>>, <<>>, <<>>)}
    ELSE
    LET query       == strip(query0)
        parsed      == sqlparse_parse(query)
        statement   == parsed[1]
        first_token == get_first_keyword(statement)
        query_upper == upper(query)
    IN
    IF parsed = <<>>
    THEN {ValidationResult(FALSE, <<Msg("Failed to parse SQL query", <<>>)>>, <<>>, query)}
    ELSE IF Len(parsed) > 1
    THEN {ValidationResult(FALSE,
            <<Msg("Multiple SQL statements detected. Only single statements allowed.", <<>>)>>,
            <<>>, query)}
    ELSE IF first_token = None
    THEN {ValidationResult(FALSE,
            <<Msg("Could not identify SQL statement type", <<>>)>>, <<>>, query)}
    ELSE IF upper(first_token) \notin ALLOWED_STATEMENTS
    THEN {ValidationResult(FALSE,
            <<Msg("Forbidden SQL operation: {first_token}. Only read-only queries allowed.",
                  first_token)>>, <<>>, query)}
    ELSE IF ForbiddenFound(query) # {}
    THEN {ValidationResult(FALSE,
            <<Msg("Query contains forbidden keyword: {forbidden}", kw)>>, <<>>, query) :
          kw \in ForbiddenFound(query)}
    ELSE IF FirstPattern(query) # 0
    THEN {ValidationResult(FALSE,
            <<Msg("Potential SQL injection pattern detected: {pattern}",
                  DANGEROUS_PATTERNS[FirstPattern(query)])>>, <<>>, query)}
    ELSE
    LET bad      == NotWhitelisted(statement, allowed_tables)
        warnings == IF Contains(kwLIMIT, query_upper) THEN <<>>
                    ELSE <<Msg("Query missing LIMIT clause. May return large result sets.", <<>>)>>
    IN  {ValidationResult(bad = {},
            [i \in 1..Cardinality(bad) |-> Msg("Table not in whitelist: {table}", order[i])],
            warnings, sqlparse_format(query)) :
         order \in Perms(bad)}

\* validate_mongodb_query: the operators it looks for in str(query); no
\* caller in the application invokes this method
dangerous_ops ==
    { <<"$","m","e","r","g","e">>, <<"$","o","u","t">>,
      <<"$","u","p","d","a","t","e">>, <<"$","d","e","l","e","t","e">>,
      <<"$","d","r","o","p">> }

\* validate_mongodb_query with is_valid computed from the warnings as well
validate_mongodb_query_strict(query) ==
    IF ~query.is_dict
    THEN {ValidationResult(FALSE, <<Msg("MongoDB query must be a dictionary", <<>>)>>,
                           <<>>, query.str)}
    ELSE
    LET found    == {op \in dangerous_ops : Contains(op, query.str)}
        warnings == IF "collection" \notin query.keys
                    THEN <<Msg("No collection specified in query", <<>>)>>
                    ELSE <<>>
    IN  {ValidationResult(found = {} /\ warnings = <<>>,
            [i \in 1..Cardinality(found) |-> Msg("Forbidden MongoDB operation: {op}", order[i])],
            warnings, query.str) :
         order \in Perms(found)}

\* validate_mongodb_query; the loop runs over a set, in any order
validate_mongodb_query(query) ==
    IF ~query.is_dict
    THEN {ValidationResult(FALSE, <<Msg("MongoDB query must be a dictionary", <<>>)>>,
                           <<>>, query.str)}
    ELSE
    LET found    == {op \in dangerous_ops : Contains(op, query.str)}
        warnings == IF "collection" \notin query.keys
                    THEN <<Msg("No collection specified in query", <<>>)>>
                    ELSE <<>>
    IN  {ValidationResult(found = {},
            [i \in 1..Cardinality(found) |-> Msg("Forbidden MongoDB operation: {op}", order[i])],
            warnings, query.str) :
         order \in Perms(found)}

(***************************************************************************)
(* QueryCleaner  (app/utils/query_cleaner.py)                              *)
(***************************************************************************)
\* the grave accent (U+0060), which a TLA+ string cannot hold
BT == "backtick"

fence == <<BT, BT, BT>>

fenceClose == <<"\n", BT, BT, BT>>

\* re.search of  header \s* \n (.*?) \n fence  with DOTALL and IGNORECASE:
\* the captured group of the leftmost match, or NoMatch
NoMatch == <<"no match">>

FenceGroupAt(header, text, p) ==
    LET h      == p + Len(header)
        wsEnd  == SkipSpace(text, h)
        starts == {g \in (h + 1)..wsEnd :
                     text[g - 1] = "\n" /\ FindFrom(fenceClose, text, g) # 0}
    IN  IF ~MatchAtCI(header, text, p) \/ starts = {} THEN NoMatch
        ELSE LET g == MaxOf(starts)
             IN  SubSeq(text, g, FindFrom(fenceClose, text, g) - 1)

FenceSearch(header, text) ==
    LET hit == {p \in 1..Len(text) : FenceGroupAt(header, text, p) # NoMatch}
    IN  IF hit = {} THEN NoMatch ELSE FenceGroupAt(header, text, MinOf(hit))

\* re.search of  BT (.*?) BT
InlineSearch(text) ==
    LET ticks == {p \in 1..Len(text) : text[p] = BT}
    IN  IF Cardinality(ticks) < 2 THEN NoMatch
        ELSE LET p == MinOf(ticks)
                 q == MinOf(ticks \ {p})
             IN  SubSeq(text, p + 1, q - 1)

extract_from_markdown(text) ==
    LET sqlBlock  == FenceSearch(fence \o <<"s","q","l">>, text)
        jsonBlock == FenceSearch(fence \o <<"j","s","o","n">>, text)
        anyBlock  == FenceSearch(fence, text)
        inline    == InlineSearch(text)
    IN  IF sqlBlock # NoMatch THEN strip(sqlBlock)
        ELSE IF jsonBlock # NoMatch THEN strip(jsonBlock)
        ELSE IF anyBlock # NoMatch THEN strip(anyBlock)
        ELSE IF inline # NoMatch THEN strip(inline)
        ELSE text

\* re.sub(r'--.*$', '', query, flags=re.MULTILINE)
RECURSIVE RemoveLineComments(_, _)
RemoveLineComments(s, i) ==
    IF i > Len(s) THEN <<>>
    ELSE IF MatchAt(<<"-","-">>, s, i)
    THEN LET eol == FindFrom(<<"\n">>, s, i)
         IN  IF eol = 0 THEN <<>> ELSE RemoveLineComments(s, eol)
    ELSE <<s[i]>> \o RemoveLineComments(s, i + 1)

\* re.sub(r'/\*.*?\*/', '', query, flags=re.DOTALL)
RECURSIVE RemoveBlockComments(_, _)
RemoveBlockComments(s, i) ==
    IF i > Len(s) THEN <<>>
    ELSE IF MatchAt(<<"/","*">>, s, i) /\ FindFrom(<<"*","/">>, s, i + 2) # 0
    THEN RemoveBlockComments(s, FindFrom(<<"*","/">>, s, i + 2) + 2)
    ELSE <<s[i]>> \o RemoveBlockComments(s, i + 1)

remove_sql_comments(query) ==
    RemoveBlockComments(RemoveLineComments(query, 1), 1)

\* str.split('\n')
RECURSIVE SplitLines(_, _, _)
SplitLines(s, i, cur) ==
    IF i > Len(s) THEN <<cur>>
    ELSE IF s[i] = "\n" THEN <<cur>> \o SplitLines(s, i + 1, <<>>)
    ELSE SplitLines(s, i + 1, Append(cur, s[i]))

\* '\n'.join(lines[from .. to]), 1-based and inclusive
RECURSIVE JoinLines(_, _, _)
JoinLines(lines, from, to) ==
    IF from > to THEN <<>>
    ELSE IF from = to THEN lines[from]
    ELSE lines[from] \o <<"\n">> \o JoinLines(lines, from + 1, to)

StartsWithAllowed(s) == \E kw \in ALLOWED_STATEMENTS : startswith(s, kw)

strip_explanations(query) ==
    LET lines     == SplitLines(query, 1, <<>>)
        sqlLines  == {i \in 1..Len(lines) : StartsWithAllowed(upper(strip(lines[i])))}
        start_idx == IF sqlLines = {} THEN 1 ELSE MinOf(sqlLines)
        content   == {i \in start_idx..Len(lines) :
                        /\ strip(lines[i]) # <<>>
                        /\ ~startswith(strip(lines[i]), <<"-","-">>)}
        end_idx   == IF content = {} THEN Len(lines) ELSE MaxOf(content)
    IN  JoinLines(lines, start_idx, end_idx)

\* re.search(r'SELECT\s+\d+', s)
SelectNumber(s) ==
    \E i \in 1..Len(s) :
        /\ MatchAt(kwSELECT, s, i)
        /\ LET j == SkipSpace(s, i + 6)
           IN  j > i + 6 /\ j <= Len(s) /\ s[j] \in Digits

validate_sql_format(query) ==
    LET query_upper == strip(upper(query))
    IN  /\ query # <<>>
        /\ StartsWithAllowed(query_upper)
        /\ (Contains(kwSELECT, query_upper) /\ ~Contains(kwFROM, query_upper)
               => SelectNumber(query_upper))

\* the pair (cleaned_query, is_valid)
clean_sql_query(raw_query) ==
    IF raw_query = <<>> THEN <<<<>>, FALSE>>
    ELSE LET query == strip_explanations(
                        remove_sql_comments(
                          extract_from_markdown(strip(raw_query))))
         IN  <<strip(query), validate_sql_format(query)>>

(* json.loads / json.dumps on the documents the model feeds them: each pair
   is a text json.loads accepts and its json.dumps re-serialisation; a text
   that is no first component raises JSONDecodeError.  *)
JsonDocuments ==
    { << <<"{","}">>, <<"{","}">> >>,
      << <<"{","\"","a","\"",":","1","}">>, <<"{","\"","a","\"",":"," ","1","}">> >>,
      << <<"{","\"","a","\"",":"," ","1","}">>, <<"{","\"","a","\"",":"," ","1","}">> >>,
      << <<"{","\"","$","o","u","t","\"",":","\"","x","\"","}">>,
         <<"{","\"","$","o","u","t","\"",":"," ","\"","x","\"","}">> >>,
      << <<"{","\"","$","o","u","t","\"",":"," ","\"","x","\"","}">>,
         <<"{","\"","$","o","u","t","\"",":"," ","\"","x","\"","}">> >> }

json_loads_ok(text) == \E d \in JsonDocuments : d[1] = strip(text)

json_dumps_loads(text) == (CHOOSE d \in JsonDocuments : d[1] = strip(text))[2]

clean_mongodb_query(raw_query) ==
    IF raw_query = <<>> THEN <<<<>>, FALSE>>
    ELSE LET query == extract_from_markdown(strip(raw_query))
         IN  IF json_loads_ok(query) THEN <<json_dumps_loads(query), TRUE>>
             ELSE <<query, FALSE>>

clean_query(raw_query, db_type) ==
    IF db_type = "postgresql" THEN clean_sql_query(raw_query)
    ELSE IF db_type = "mongodb" THEN clean_mongodb_query(raw_query)
    ELSE <<raw_query, FALSE>>

(***************************************************************************)
(* Texts the text-generation port returns                                  *)
(***************************************************************************)
sp == <<" ">>

nl == <<"\n">>

users == <<"u","s","e","r","s">>

star == <<"*">>

SelectUsers == kwSELECT \o sp \o star \o sp \o kwFROM \o sp \o users

SelectUsersLimit == SelectUsers \o sp \o kwLIMIT \o sp \o <<"1","0">>

DeleteUsers == kwDELETE \o sp \o kwFROM \o sp \o users

SelectId == kwSELECT \o sp \o <<"i","d">>

FencedSelect ==
    fence \o <<"s","q","l">> \o nl \o SelectUsersLimit \o <<";">> \o nl \o fence

SelectThenDrop ==
    SelectUsers \o <<";">> \o sp \o kwDROP \o sp \o kwTABLE \o sp \o users \o <<";">>

JsonFind == <<"{","\"","a","\"",":","1","}">>

JsonBroken == <<"{">>

JsonOut == <<"{","\"","$","o","u","t","\"",":","\"","x","\"","}">>

\* what llm.invoke(prompt).content can be, per dialect
Responses(db_type) ==
    IF db_type = "postgresql"
    THEN {<<>>, SelectUsers, DeleteUsers, SelectId, FencedSelect, SelectThenDrop}
    ELSE {<<>>, JsonFind, JsonBroken, JsonOut, SelectUsers}

\* str(e) of the exception llm.invoke raises
LlmError == Msg("{e}", <<"t","i","m","e","o","u","t">>)

(***************************************************************************)
(* SQLAgent  (app/agents/sql_agent.py)                                     *)
(***************************************************************************)
\* _should_retry: iteration bound
max_iterations == 3

\* workflow.invoke(initial_state) runs under LangGraph's default
\* recursion_limit: at most this many node executions, then
\* GraphRecursionError
RecursionLimit == 25

DbTypes == {"postgresql", "mongodb"}

VARIABLES
    \* AgentState
    db_type, iteration, generated_query, validation_result, execution_error,
    final_query, thinking_steps, is_valid,
    \* control of workflow.invoke and generate_query
    node,           \* the node to run next, "END", or "returned"
    steps,          \* node executions so far
    prompt,         \* the prompt of the last generation attempt
    result,         \* <<>> or <<the dict generate_query returned>>
    \* history of the run
    llm_calls,      \* calls of llm.invoke, returning or raising
    critic_runs,    \* executions of _critic_node
    validate_calls, \* calls of QueryValidator.validate
    attempts,       \* one record per execution of _generator_node
    retry_causes,   \* per retry edge taken: the messages that caused it
    \* QueryValidator.validate as a function of its input
    val_query, val_allowed, val_result,
    val_arg,        \* <<>> or <<the allowed_tables handed to __init__>>
    \* QueryValidator.validate_mongodb_query as a function of its input
    mongo_query, mongo_result,
    \* the request handler execute_query of api/query.py
    use_local,      \* LocalRAGService (TRUE) or the cloud RAGService
    auto_execute,   \* should_auto_execute_query(...) or request.execute_query
    req_node,       \* the position of the handler
    req_generated,  \* <<>> or <<what rag_service.generate_query returned>>
    executed,       \* the texts handed to connector.execute_query, in order
    \* SchemaStore and its PGVector collections
    embeddings,     \* self.embeddings is set
    collections,    \* the connection ids that have a collection row
    documents,      \* per connection id and table: the stored documents
    refresh,        \* <<>> or <<the refresh_schema request in progress>>
    current,        \* per connection id: <<>> or <<the schema last indexed>>
    last_call,      \* <<>> or <<the last call of a SchemaStore method>>
    writers,        \* the index_schema and delete_schema calls running concurrently
    \* QueryCleaner as a function of its input
    clean_input,    \* the text handed to the cleaner
    clean_op,       \* the function of the cleaner that ran last, or "none"
    clean_output,   \* <<>> or <<(text, flag) the last function returned>>
    clean_previous, \* <<>> or <<what clean_query returned before it ran again>>
    \* RateLimiter of core/security.py
    max_requests, window_seconds,
    requests,       \* self.requests: user_id -> list of timestamps
    clock,          \* what time.time() returns
    allowed,        \* per user: the timestamps of the calls that returned True
    last_allowed    \* <<>> or <<the last call of is_allowed>>

agentVars ==
    <<db_type, iteration, generated_query, validation_result, execution_error,
      final_query, thinking_steps, is_valid, node, steps, prompt, result,
      llm_calls, critic_runs, validate_calls, attempts, retry_causes>>

valVars == <<val_query, val_allowed, val_result, val_arg, mongo_query, mongo_result>>

reqVars == <<use_local, auto_execute, req_node, req_generated, executed>>

storeVars == <<embeddings, collections, documents, refresh, current, last_call,
               writers>>

cleanVars == <<clean_input, clean_op, clean_output, clean_previous>>

rateVars == <<max_requests, window_seconds, requests, clock, allowed, last_allowed>>

vars == <<agentVars, valVars, reqVars, storeVars, cleanVars, rateVars>>

Step(text, n, errors) == [step |-> text, n |-> n, errors |-> errors]

\* generate_query: initial_state
InitialState ==
    /\ iteration = 0
    /\ generated_query = <<>>
    /\ validation_result = None
    /\ execution_error = None
    /\ final_query = None
    /\ thinking_steps = <<>>
    /\ is_valid = FALSE
    /\ node = "generator"
    /\ steps = 0
    /\ prompt = None
    /\ result = None
    /\ llm_calls = 0
    /\ critic_runs = 0
    /\ validate_calls = 0
    /\ attempts = <<>>
    /\ retry_causes = <<>>

ValIdle ==
    /\ val_query = <<>>
    /\ val_allowed = {}
    /\ val_result = None
    /\ val_arg = None
    /\ mongo_query = None
    /\ mongo_result = None

\* no request is being handled
ReqIdle ==
    /\ use_local = TRUE
    /\ auto_execute = TRUE
    /\ req_node = "idle"
    /\ req_generated = None
    /\ executed = <<>>

\* the cleaner has not been called
CleanIdle ==
    /\ clean_input = <<>>
    /\ clean_op = "none"
    /\ clean_output = None
    /\ clean_previous = None

UserIds == {"u1", "u2"}

\* RateLimiter(): the defaults of __init__, no request recorded
RateIdle ==
    /\ max_requests = 100
    /\ window_seconds = 60
    /\ requests = [u \in UserIds |-> <<>>]
    /\ clock = 0
    /\ allowed = [u \in UserIds |-> <<>>]
    /\ last_allowed = None

ConnIds == {1, 2}

Tables == {"users", "orders"}

\* no schema has been indexed
StoreIdle ==
    /\ embeddings = TRUE
    /\ collections = {}
    /\ documents = [c \in ConnIds |-> [t \in Tables |-> 0]]
    /\ refresh = None
    /\ current = [c \in ConnIds |-> None]
    /\ last_call = None
    /\ writers = <<>>

Init ==
    /\ db_type \in DbTypes
    /\ InitialState
    /\ ValIdle
    /\ ReqIdle
    /\ CleanIdle
    /\ RateIdle
    /\ StoreIdle

\* the prompt _generator_node builds: the initial form at iteration 0, the
\* fix form afterwards
build_prompt ==
    IF iteration = 0
    THEN <<[form |-> "initial", candidate |-> <<>>,
            error_feedback |-> <<>>, validation_feedback |-> <<>>]>>
    ELSE <<[form |-> "fix", candidate |-> generated_query,
            error_feedback |-> execution_error,
            validation_feedback |->
                IF validation_result # None THEN validation_result[1].errors
                ELSE <<>>]>>

\* _generator_node when llm.invoke returns raw_query
GeneratorReturns(raw_query) ==
    LET cleaned == clean_query(raw_query, db_type)
    IN  /\ generated_query' = cleaned[1]
        /\ iteration' = iteration + 1
        /\ thinking_steps' =
              Append(thinking_steps,
                     Step("Iteration {iteration + 1}: Generated query",
                          iteration + 1, <<>>))
        /\ attempts' = Append(attempts,
              [raised |-> FALSE, raw |-> raw_query, plausible |-> cleaned[2],
               before |-> iteration])
        /\ UNCHANGED execution_error

\* _generator_node when llm.invoke raises
GeneratorRaises ==
    /\ execution_error' = <<LlmError>>
    /\ attempts' = Append(attempts,
          [raised |-> TRUE, raw |-> <<>>, plausible |-> FALSE,
           before |-> iteration])
    /\ UNCHANGED <<generated_query, iteration, thinking_steps>>

GeneratorNode ==
    /\ node = "generator"
    /\ steps < RecursionLimit
    /\ prompt' = build_prompt
    /\ llm_calls' = llm_calls + 1
    /\ \/ \E raw_query \in Responses(db_type) : GeneratorReturns(raw_query)
       \/ GeneratorRaises
    /\ node' = "validator"
    /\ steps' = steps + 1
    /\ UNCHANGED <<db_type, validation_result, final_query, is_valid, result,
                   critic_runs, validate_calls, retry_causes, valVars, reqVars, storeVars, cleanVars, rateVars>>

\* _should_retry with the bound tested as  iteration > max_iterations
should_retry_late(valid, iter) ==
    IF valid THEN "complete"
    ELSE IF iter > max_iterations THEN "complete"
    ELSE "retry"

\* _should_retry that only stops at the bound
should_retry_blind(valid, iter) ==
    IF iter >= max_iterations THEN "complete" ELSE "retry"

\* _should_retry
should_retry(valid, iter) ==
    IF valid THEN "complete"
    ELSE IF iter >= max_iterations THEN "complete"
    ELSE "retry"

\* the conditional edge out of "validator"
Route(valid, iter) ==
    IF should_retry(valid, iter) = "retry" THEN "critic" ELSE "END"

EmptyGenerated == Msg("Empty query generated", <<>>)

InvalidJson == Msg("Invalid JSON: {str(e)}", <<>>)

\* _validator_node without the  if not query  short cut: the empty query
\* goes through QueryValidator.validate
ValidatorEmpty_parsed ==
    /\ generated_query = <<>>
    /\ validate_calls' = validate_calls + 1
    /\ \E res \in validate(generated_query, {}) :
          /\ validation_result' = <<[is_valid |-> res.is_valid,
                                     errors |-> res.errors,
                                     warnings |-> res.warnings]>>
          /\ is_valid' = res.is_valid
          /\ thinking_steps' =
                Append(thinking_steps,
                       Step("Validation failed: {', '.join(result.errors)}",
                            0, res.errors))
    /\ UNCHANGED final_query

\* _validator_node whose empty-query branch sets is_valid to True
ValidatorEmpty_accepts ==
    /\ generated_query = <<>>
    /\ validation_result' = <<[is_valid |-> FALSE, errors |-> <<EmptyGenerated>>,
                               warnings |-> <<>>]>>
    /\ is_valid' = TRUE
    /\ UNCHANGED <<final_query, thinking_steps, validate_calls>>

\* _validator_node, query empty: fails without validating
ValidatorEmpty ==
    /\ generated_query = <<>>
    /\ validation_result' = <<[is_valid |-> FALSE, errors |-> <<EmptyGenerated>>,
                               warnings |-> <<>>]>>
    /\ is_valid' = FALSE
    /\ UNCHANGED <<final_query, thinking_steps, validate_calls>>

\* _validator_node, db_type == "postgresql"
ValidatorSql ==
    /\ generated_query # <<>>
    /\ db_type = "postgresql"
    /\ validate_calls' = validate_calls + 1
    /\ \E res \in validate(generated_query, {}) :
          /\ validation_result' = <<[is_valid |-> res.is_valid,
                                     errors |-> res.errors,
                                     warnings |-> res.warnings]>>
          /\ is_valid' = res.is_valid
          /\ IF res.is_valid
             THEN /\ final_query' = res.normalized_query
                  /\ thinking_steps' =
                        Append(thinking_steps, Step("Validation passed", 0, <<>>))
             ELSE /\ final_query' = final_query
                  /\ thinking_steps' =
                        Append(thinking_steps,
                               Step("Validation failed: {', '.join(result.errors)}",
                                    0, res.errors))

\* _validator_node, db_type == "mongodb"
ValidatorMongo ==
    /\ generated_query # <<>>
    /\ db_type = "mongodb"
    /\ IF json_loads_ok(generated_query)
       THEN /\ validation_result' = <<[is_valid |-> TRUE, errors |-> <<>>,
                                       warnings |-> <<>>]>>
            /\ is_valid' = TRUE
            /\ final_query' = generated_query
            /\ thinking_steps' =
                  Append(thinking_steps, Step("Validation passed", 0, <<>>))
       ELSE /\ validation_result' = <<[is_valid |-> FALSE,
                                       errors |-> <<InvalidJson>>,
                                       warnings |-> <<>>]>>
            /\ is_valid' = FALSE
            /\ final_query' = final_query
            /\ thinking_steps' =
                  Append(thinking_steps,
                         Step("Validation failed: Invalid JSON", 0, <<>>))
    /\ UNCHANGED validate_calls

ValidatorNode ==
    /\ node = "validator"
    /\ steps < RecursionLimit
    /\ \/ ValidatorEmpty
       \/ ValidatorSql
       \/ ValidatorMongo
    /\ node' = Route(is_valid', iteration)
    /\ steps' = steps + 1
    /\ UNCHANGED <<db_type, iteration, generated_query, execution_error, prompt,
                   result, llm_calls, critic_runs, attempts, retry_causes,
                   valVars, reqVars, storeVars, cleanVars, rateVars>>

\* _critic_node
CriticNode ==
    /\ node = "critic"
    /\ steps < RecursionLimit
    /\ LET errors == validation_result[1].errors
       IN  /\ execution_error' = errors
           /\ thinking_steps' =
                 Append(thinking_steps,
                        Step("Critique: {error_feedback}", 0, errors))
           /\ retry_causes' =
                 Append(retry_causes,
                        [errors |-> errors,
                         raised |-> attempts[Len(attempts)].raised])
    /\ critic_runs' = critic_runs + 1
    /\ node' = "generator"
    /\ steps' = steps + 1
    /\ UNCHANGED <<db_type, iteration, generated_query, validation_result,
                   final_query, is_valid, prompt, result, llm_calls,
                   validate_calls, attempts, valVars, reqVars, storeVars, cleanVars, rateVars>>

\* generate_query: the workflow reached END and its final state is returned
Complete ==
    /\ node = "END"
    /\ result' = <<[query |-> IF final_query # None THEN final_query
                              ELSE generated_query,
                    success |-> is_valid,
                    iterations |-> iteration,
                    thinking_steps |-> thinking_steps,
                    errors |-> validation_result[1].errors]>>
    /\ node' = "returned"
    /\ UNCHANGED <<db_type, iteration, generated_query, validation_result,
                   execution_error, final_query, thinking_steps, is_valid,
                   steps, prompt, llm_calls, critic_runs, validate_calls,
                   attempts, retry_causes, valVars, reqVars, storeVars, cleanVars, rateVars>>

RecursionError == Msg("{e}", <<"r","e","c","u","r","s","i","o","n">>)

\* generate_query: workflow.invoke raised GraphRecursionError, the except
\* branch returns
WorkflowFailed ==
    /\ node \in {"generator", "validator", "critic"}
    /\ steps = RecursionLimit
    /\ result' = <<[query |-> <<>>,
                    success |-> FALSE,
                    iterations |-> 0,
                    thinking_steps |-> <<Step("Workflow failed", 0, <<>>)>>,
                    errors |-> <<RecursionError>>]>>
    /\ node' = "failed"
    /\ UNCHANGED <<db_type, iteration, generated_query, validation_result,
                   execution_error, final_query, thinking_steps, is_valid,
                   steps, prompt, llm_calls, critic_runs, validate_calls,
                   attempts, retry_causes, valVars, reqVars, storeVars, cleanVars, rateVars>>

Next ==
    \/ GeneratorNode
    \/ ValidatorNode
    \/ CriticNode
    \/ Complete
    \/ WorkflowFailed

Spec == Init /\ [][Next]_vars

(***************************************************************************)
(* QueryValidator.validate applied to bounded texts                        *)
(***************************************************************************)
\* a text is at most MaxFrags fragments, joined by single spaces
MaxFrags == 2

Fragments ==
    { kwSELECT \o sp \o star,
      <<"s","e","l","e","c","t">> \o sp \o <<"u","p","d","a","t","e","d","_","a","t">>,
      SelectId,
      kwFROM \o sp \o users,
      <<"f","r","o","m">> \o sp \o <<"O","r","d","e","r","s">>,
      kwLIMIT \o sp \o <<"1","0">>,
      <<";">> \o sp \o <<"d","r","o","p">> \o sp \o <<"t","a","b","l","e">> \o sp \o users,
      kwWHERE \o sp \o <<"1","=","1">>,
      kwUNION \o sp \o kwSELECT \o sp \o star,
      <<"-","-">>,
      kwDELETE }

RECURSIVE JoinFrags(_)
JoinFrags(fs) ==
    IF fs = <<>> THEN <<>>
    ELSE IF Len(fs) = 1 THEN fs[1]
    ELSE fs[1] \o sp \o JoinFrags(Tail(fs))

ValTexts ==
    {JoinFrags(fs) : fs \in UNION {[1..n -> Fragments] : n \in 0..MaxFrags}}

\* the allowed_tables a validator is constructed with: the default None, the
\* empty set, a set of tables
AllowLists == { None, <<{}>>, <<{users}>> }

\* __init__: self.allowed_tables = allowed_tables or set()
init_allowed_tables(allowed_tables) ==
    IF allowed_tables = None THEN {}
    ELSE IF allowed_tables[1] = {} THEN {}
    ELSE allowed_tables[1]

\* a Python value handed to validate_mongodb_query: whether it is a dict, its
\* keys, and str(query)
PyValue(is_dict, keys, text) == [is_dict |-> is_dict, keys |-> keys, str |-> text]

MongoQueries ==
    { PyValue(TRUE, {"collection", "filter"}, <<"{","'","c","o","l","l","e","c","t","i","o","n","'",":"," ","'","u","s","e","r","s","'",","," ","'","f","i","l","t","e","r","'",":"," ","{","}","}">>),
      PyValue(TRUE, {"filter"}, <<"{","'","f","i","l","t","e","r","'",":"," ","{","}","}">>),
      PyValue(TRUE, {"$out"}, <<"{","'","$","o","u","t","'",":"," ","'","x","'","}">>),
      PyValue(TRUE, {"collection", "pipeline"}, <<"{","'","c","o","l","l","e","c","t","i","o","n","'",":"," ","'","u","s","e","r","s","'",","," ","'","p","i","p","e","l","i","n","e","'",":"," ","[","{","'","$","m","e","r","g","e","'",":"," ","'","a","'","}",","," ","{","'","$","o","u","t","'",":"," ","'","x","'","}","]","}">>),
      PyValue(FALSE, {}, <<"[","{","'","$","o","u","t","'",":"," ","'","x","'","}","]">>) }

ValInit ==
    /\ db_type = "postgresql"
    /\ InitialState
    /\ \/ /\ val_query \in ValTexts
          /\ val_arg \in AllowLists
          /\ mongo_query = None
       \/ /\ val_query = <<>>
          /\ val_arg = None
          /\ mongo_query \in {<<q>> : q \in MongoQueries}
    /\ val_allowed = init_allowed_tables(val_arg)
    /\ val_result = None
    /\ mongo_result = None
    /\ ReqIdle
    /\ CleanIdle
    /\ RateIdle
    /\ StoreIdle

\* QueryValidator(allowed_tables=val_allowed).validate(val_query)
Validate ==
    /\ val_result = None
    /\ mongo_query = None
    /\ \E res \in validate(val_query, val_allowed) : val_result' = <<res>>
    /\ UNCHANGED <<agentVars, val_query, val_allowed, val_arg, mongo_query, mongo_result,
                   reqVars, storeVars, cleanVars, rateVars>>

\* QueryValidator().validate_mongodb_query(mongo_query)
ValidateMongoQuery ==
    /\ mongo_query # None
    /\ mongo_result = None
    /\ \E res \in validate_mongodb_query(mongo_query[1]) : mongo_result' = <<res>>
    /\ UNCHANGED <<agentVars, val_query, val_allowed, val_result, val_arg, mongo_query,
                   reqVars, storeVars, cleanVars, rateVars>>

ValNext ==
    \/ Validate
    \/ ValidateMongoQuery

ValSpec == ValInit /\ [][ValNext]_vars

(***************************************************************************)
(* The request path: execute_query of app/api/query.py, with               *)
(* LocalRAGService.generate_query and RAGService.generate_query            *)
(***************************************************************************)
Limit100 == sp \o kwLIMIT \o sp \o <<"1","0","0">>

\* QueryCleaner.add_limit_if_missing(query)
add_limit_if_missing(query) ==
    IF Contains(kwLIMIT, upper(query)) THEN query
    ELSE IF ~startswith(strip(upper(query)), kwSELECT) THEN query
    ELSE IF endswith(rstrip(query), <<";">>)
    THEN SubSeq(rstrip(query), 1, Len(rstrip(query)) - 1) \o Limit100 \o <<";">>
    ELSE query \o Limit100

\* s.strip(c) for a single character c
StripChar(s, c) ==
    LET keep == {i \in 1..Len(s) : s[i] # c}
    IN  IF keep = {} THEN <<>> ELSE SubSeq(s, MinOf(keep), MaxOf(keep))

\* s.rstrip(c) for a single character c
RStripChar(s, c) ==
    LET keep == {i \in 1..Len(s) : s[i] # c}
    IN  IF keep = {} THEN <<>> ELSE SubSeq(s, 1, MaxOf(keep))

\* s.split()[0] if s.split() else ''
FirstWord(s) ==
    LET i    == SkipSpace(s, 1)
        stop == {j \in i..Len(s) : IsSpace(s[j])}
    IN  IF i > Len(s) THEN <<>>
        ELSE SubSeq(s, i, IF stop = {} THEN Len(s) ELSE MinOf(stop) - 1)

\* lines[1:-1] of a text that starts with a fence, if it has more than two
\* lines
DropFenceLines(query) ==
    LET lines == SplitLines(query, 1, <<>>)
    IN  IF Len(lines) > 2 THEN JoinLines(lines, 2, Len(lines) - 1) ELSE query

\* LocalRAGService.generate_query: the text made of the model's response
local_generate_query(response) ==
    LET query == strip(response)
    IN  strip(IF startswith(query, fence) THEN DropFenceLines(query) ELSE query)

\* execute_query: "Clean up generated query"
api_cleanup(generated) ==
    LET query == strip(generated)
    IN  IF startswith(query, fence) THEN strip(DropFenceLines(query))
        ELSE IF startswith(query, <<BT>>) /\ endswith(query, <<BT>>)
        THEN StripChar(query, BT)
        ELSE query

safe_operations ==
    {lower(kwSELECT), lower(kwSHOW), lower(kwDESCRIBE), lower(kwEXPLAIN), lower(kwWITH)}

dangerous_operations ==
    {lower(kw) : kw \in FORBIDDEN_KEYWORDS \ {kwMERGE, kwUPSERT, kwREPLACE}}

dangerous_mongo ==
    { <<"$","m","e","r","g","e">>, <<"$","o","u","t">>,
      <<"$","u","p","d","a","t","e">>, <<"$","d","e","l","e","t","e">>,
      <<"$","d","r","o","p">> }

is_safe_read_query(query, db) ==
    LET query_lower == strip(lower(query))
    IN  IF db = "postgresql"
        THEN /\ FirstWord(query_lower) \in safe_operations
             /\ \A dangerous \in dangerous_operations : ~Contains(dangerous, query_lower)
        ELSE IF db = "mongodb"
        THEN \A op \in dangerous_mongo : ~Contains(op, query_lower)
        ELSE FALSE

\* execute_database_query_safely: the text passed to connector.execute_query
\* of a postgresql connection
with_default_limit(query) ==
    IF ~Contains(lower(kwLIMIT), lower(query)) /\ Contains(lower(kwSELECT), lower(query))
    THEN RStripChar(query, ";") \o Limit100
    ELSE query

SelectTautology == SelectUsers \o sp \o kwWHERE \o sp \o <<"1","=","1">>

InlineSelect == <<BT>> \o SelectUsersLimit \o <<BT>>

\* what the language model of the RAG service can answer
ReqResponses(db) ==
    IF db = "postgresql"
    THEN Responses(db) \cup {SelectTautology, InlineSelect}
    ELSE Responses(db) \cup {InlineSelect}

Generated(is_tuple, query, flag) == [tuple |-> is_tuple, query |-> query, flag |-> flag]

ReqInit ==
    /\ db_type \in DbTypes
    /\ InitialState
    /\ ValIdle
    /\ StoreIdle
    /\ CleanIdle
    /\ RateIdle
    /\ use_local \in BOOLEAN
    /\ auto_execute \in BOOLEAN
    /\ req_node = "answer"
    /\ req_generated = None
    /\ executed = <<>>

\* answer = rag_service.query_with_rag(...): the local service may raise,
\* which ends the request with status 500; the cloud service catches
ReqAnswer ==
    /\ req_node = "answer"
    /\ \/ req_node' = IF auto_execute THEN "generate" ELSE "done"
       \/ use_local /\ req_node' = "error500"
    /\ UNCHANGED <<agentVars, valVars, storeVars, cleanVars, rateVars, use_local, auto_execute,
                   req_generated, executed>>

\* generated_query = LocalRAGService.generate_query(...); an exception of
\* llm.invoke is caught by the handler's "Auto query execution failed"
ReqGenerateLocal ==
    /\ req_node = "generate"
    /\ use_local
    /\ \/ \E response \in ReqResponses(db_type) :
            /\ req_generated' = <<Generated(FALSE, local_generate_query(response), FALSE)>>
            /\ req_node' = "check"
       \/ /\ req_generated' = req_generated
          /\ req_node' = "done"
    /\ UNCHANGED <<agentVars, valVars, storeVars, cleanVars, rateVars, use_local, auto_execute, executed>>

\* RAGService.generate_query up to its "Validate query" step: the model
\* calls, the cleaning and the safety limit; when a model call raises, the
\* method returns the tuple ("", False)
ReqGenerateCloud ==
    /\ req_node = "generate"
    /\ ~use_local
    /\ \/ \E raw1, raw2 \in ReqResponses(db_type) :
            \E first \in {clean_query(raw1, db_type)} :
            \E second \in {IF ~first[2] THEN clean_query(raw2, db_type) ELSE first} :
            \E cleaned_query \in {IF db_type = "postgresql" /\ second[2]
                                  THEN add_limit_if_missing(second[1])
                                  ELSE second[1]} :
                /\ req_generated' = <<Generated(TRUE, cleaned_query, FALSE)>>
                /\ req_node' = "validate"
       \/ /\ req_generated' = <<Generated(TRUE, <<>>, FALSE)>>
          /\ req_node' = "check"
    /\ UNCHANGED <<agentVars, valVars, storeVars, cleanVars, rateVars, use_local, auto_execute, executed>>

\* RAGService.generate_query, "Validate query": the method returns the
\* tuple (cleaned_query, validation_result.is_valid)
ReqValidateCloud ==
    /\ req_node = "validate"
    /\ \E res \in validate(req_generated[1].query, {}) :
          req_generated' = <<Generated(TRUE, req_generated[1].query, res.is_valid)>>
    /\ req_node' = "check"
    /\ UNCHANGED <<agentVars, valVars, storeVars, cleanVars, rateVars, use_local, auto_execute, executed>>

(* The clean-up of the generated query and the safety check.  A tuple has
   no strip(): the AttributeError is caught, and the handler then fails
   with a TypeError while it appends the tuple to the answer: status 500. *)
ReqCheck ==
    /\ req_node = "check"
    /\ IF req_generated[1].tuple
       THEN /\ req_node' = "error500"
            /\ req_generated' = req_generated
       ELSE LET generated_query0 == req_generated[1].query
                cleaned == IF generated_query0 = <<>> THEN <<>>
                           ELSE api_cleanup(generated_query0)
            IN  /\ req_generated' = <<Generated(FALSE, cleaned, FALSE)>>
                /\ req_node' = IF cleaned # <<>> /\ is_safe_read_query(cleaned, db_type)
                               THEN "execute" ELSE "done"
    /\ UNCHANGED <<agentVars, valVars, storeVars, cleanVars, rateVars, use_local, auto_execute, executed>>

\* execute_database_query_safely; connector.connect may raise
ReqExecute ==
    /\ req_node = "execute"
    /\ LET query == req_generated[1].query
       IN  \/ /\ is_safe_read_query(query, db_type)
              /\ IF db_type = "postgresql"
                 THEN executed' = Append(executed, with_default_limit(query))
                 ELSE IF json_loads_ok(query)
                 THEN executed' = Append(executed, query)
                 ELSE executed' = executed
           \/ executed' = executed
    /\ req_node' = "done"
    /\ UNCHANGED <<agentVars, valVars, storeVars, cleanVars, rateVars, use_local, auto_execute,
                   req_generated>>

ReqNext ==
    \/ ReqAnswer
    \/ ReqGenerateLocal
    \/ ReqGenerateCloud
    \/ ReqValidateCloud
    \/ ReqCheck
    \/ ReqExecute

ReqSpec == ReqInit /\ [][ReqNext]_vars

(***************************************************************************)
(* SchemaStore  (app/services/schema_store.py) over PGVector, and          *)
(* refresh_schema of app/api/connections.py                                *)
(***************************************************************************)
\* documents of one table the model lets accumulate in a collection
MaxCopies == 2

\* get_relevant_schema: the default of k
default_k == 10

\* the values of k a caller passes
Ks == {1, default_k}

\* a schema is {table_name: columns}; the model keeps the table names
Schemas == SUBSET Tables

NoDocuments == [t \in Tables |-> 0]

\* the number of documents of a collection
Total(docs) == docs["users"] + docs["orders"]

\* the tables a collection has a document of
TablesOf(docs) == {t \in Tables : docs[t] > 0}

Call(method, connection_id, k, schema, returned, raised, failure, concurrent) ==
    [method |-> method, connection_id |-> connection_id, k |-> k,
     schema |-> schema, returned |-> returned, raised |-> raised,
     failure |-> failure, concurrent |-> concurrent]

StoreInit ==
    /\ db_type = "postgresql"
    /\ InitialState
    /\ ValIdle
    /\ ReqIdle
    /\ CleanIdle
    /\ RateIdle
    /\ embeddings \in BOOLEAN
    /\ collections = {}
    /\ documents = [c \in ConnIds |-> NoDocuments]
    /\ refresh = None
    /\ current = [c \in ConnIds |-> None]
    /\ last_call = None
    /\ writers = <<>>

(* The PGVector constructor gets or creates the collection row before the
   operation proper runs; an exception of the backend can come before or
   after that. *)
BackendFailure(connection_id) ==
    /\ collections' \in {collections, collections \cup {connection_id}}
    /\ UNCHANGED <<documents, current>>

\* index_schema(connection_id, schema)
IndexSchemaCall(connection_id, schema) ==
    \/ /\ ~embeddings
       /\ last_call' = <<Call("index_schema", connection_id, 0, schema, FALSE, FALSE,
                              "embeddings", None)>>
       /\ UNCHANGED <<collections, documents, current>>
    \/ /\ embeddings
       /\ schema = {}
       /\ last_call' = <<Call("index_schema", connection_id, 0, schema, FALSE, FALSE,
                              "none", None)>>
       /\ UNCHANGED <<collections, documents, current>>
    \/ /\ embeddings
       /\ schema # {}
       /\ \A t \in schema : documents[connection_id][t] < MaxCopies
       /\ collections' = collections \cup {connection_id}
       /\ documents' = [documents EXCEPT ![connection_id] =
                          [t \in Tables |-> IF t \in schema THEN @[t] + 1 ELSE @[t]]]
       /\ current' = [current EXCEPT ![connection_id] = <<schema>>]
       /\ last_call' = <<Call("index_schema", connection_id, 0, schema, TRUE, FALSE,
                              "none", None)>>
    \/ /\ embeddings
       /\ schema # {}
       /\ BackendFailure(connection_id)
       /\ last_call' = <<Call("index_schema", connection_id, 0, schema, FALSE, FALSE,
                              "backend", None)>>

\* delete_schema(connection_id)
DeleteSchemaCall(connection_id) ==
    \/ /\ collections' = collections \ {connection_id}
       /\ documents' = [documents EXCEPT ![connection_id] = NoDocuments]
       /\ current' = [current EXCEPT ![connection_id] = None]
       /\ last_call' = <<Call("delete_schema", connection_id, 0, {}, TRUE, FALSE,
                              "none", None)>>
    \/ /\ BackendFailure(connection_id)
       /\ last_call' = <<Call("delete_schema", connection_id, 0, {}, FALSE, FALSE,
                              "backend", None)>>

(* similarity_search(query, k) returns the min(k, n) documents of the
   collection nearest to the query; which ones depends on the embedding.
   The schemas get_relevant_schema can rebuild from them: *)
SearchResults(docs, k) ==
    LET n == IF k < Total(docs) THEN k ELSE Total(docs)
    IN  {TablesOf(pick) : pick \in
            {p \in [Tables -> 0..MaxCopies + 1] :
                /\ \A t \in Tables : p[t] <= docs[t]
                /\ Total(p) = n}}

\* what get_relevant_schema does with an exception of the search: it returns {}
SearchFailed_reraised(connection_id, k) ==
    /\ BackendFailure(connection_id)
    /\ last_call' = <<Call("get_relevant_schema", connection_id, k, {}, {}, TRUE,
                           "backend", refresh)>>

SearchFailed(connection_id, k) ==
    /\ BackendFailure(connection_id)
    /\ last_call' = <<Call("get_relevant_schema", connection_id, k, {}, {}, FALSE,
                           "backend", refresh)>>

\* get_relevant_schema(connection_id, query, k)
GetRelevantSchema ==
    /\ \E connection_id \in ConnIds, k \in Ks :
        \/ /\ ~embeddings
           /\ last_call' = <<Call("get_relevant_schema", connection_id, k, {}, {}, FALSE,
                                  "embeddings", refresh)>>
           /\ UNCHANGED <<collections, documents, current>>
        \/ /\ embeddings
           /\ \E relevant_schema \in SearchResults(documents[connection_id], k) :
                last_call' = <<Call("get_relevant_schema", connection_id, k, {},
                                    relevant_schema, FALSE, "none", refresh)>>
           /\ collections' = collections \cup {connection_id}
           /\ UNCHANGED <<documents, current>>
        \/ /\ embeddings
           /\ SearchFailed(connection_id, k)
    /\ UNCHANGED <<agentVars, valVars, reqVars, cleanVars, rateVars, embeddings, refresh, writers>>

\* create_connection: the schema of a connection is indexed
IndexSchema ==
    /\ refresh = None
    /\ \E connection_id \in ConnIds, schema \in Schemas :
          IndexSchemaCall(connection_id, schema)
    /\ UNCHANGED <<agentVars, valVars, reqVars, cleanVars, rateVars, embeddings, refresh, writers>>

\* delete_connection: the index of a connection is deleted
DeleteSchema ==
    /\ refresh = None
    /\ \E connection_id \in ConnIds : DeleteSchemaCall(connection_id)
    /\ UNCHANGED <<agentVars, valVars, reqVars, cleanVars, rateVars, embeddings, refresh, writers>>

\* refresh_schema up to "Re-index in schema store": the schema is extracted
\* again
RefreshStart ==
    /\ refresh = None
    /\ \E connection_id \in ConnIds, schema \in Schemas :
          refresh' = <<[connection_id |-> connection_id, schema |-> schema,
                        before |-> TablesOf(documents[connection_id]),
                        step |-> "delete_schema"]>>
    /\ UNCHANGED <<agentVars, valVars, reqVars, cleanVars, rateVars, embeddings, collections, documents,
                   current, last_call, writers>>

\* refresh_schema: schema_store.delete_schema(connection_id)
RefreshDelete ==
    /\ refresh # None
    /\ refresh[1].step = "delete_schema"
    /\ DeleteSchemaCall(refresh[1].connection_id)
    /\ refresh' = <<[refresh[1] EXCEPT !.step = "index_schema"]>>
    /\ UNCHANGED <<agentVars, valVars, reqVars, cleanVars, rateVars, embeddings, writers>>

\* refresh_schema: schema_store.index_schema(connection_id, schema, db_type)
RefreshIndex ==
    /\ refresh # None
    /\ refresh[1].step = "index_schema"
    /\ IndexSchemaCall(refresh[1].connection_id, refresh[1].schema)
    /\ refresh' = None
    /\ UNCHANGED <<agentVars, valVars, reqVars, cleanVars, rateVars, embeddings, writers>>

StoreNext ==
    \/ IndexSchema
    \/ DeleteSchema
    \/ GetRelevantSchema
    \/ RefreshStart
    \/ RefreshDelete
    \/ RefreshIndex

StoreSpec == StoreInit /\ [][StoreNext]_vars

(***************************************************************************)
(* index_schema and delete_schema called concurrently.  Neither takes a    *)
(* lock; each is a sequence of database sessions of PGVector that commit   *)
(* on their own: the constructor gets or creates the collection row, then  *)
(* add_embeddings inserts the documents of the call in one commit (it      *)
(* raises when the collection row is gone), or delete_collection deletes   *)
(* the row and its documents in one commit.                                *)
(***************************************************************************)
\* calls running concurrently
MaxWriters == 2

\* the calls a writer can make
WriteCalls ==
    {[method |-> "index_schema", connection_id |-> c, schema |-> sch]
        : c \in ConnIds, sch \in Schemas}
    \cup {[method |-> "delete_schema", connection_id |-> c, schema |-> {}]
        : c \in ConnIds}

Writer(call, step, returned) ==
    [method |-> call.method, connection_id |-> call.connection_id,
     schema |-> call.schema, step |-> step, returned |-> returned]

\* the calls are issued; none has reached the database yet
WriteInit ==
    /\ db_type = "postgresql"
    /\ InitialState
    /\ ValIdle
    /\ ReqIdle
    /\ CleanIdle
    /\ RateIdle
    /\ embeddings = TRUE
    /\ collections = {}
    /\ documents = [c \in ConnIds |-> NoDocuments]
    /\ refresh = None
    /\ current = [c \in ConnIds |-> None]
    /\ last_call = None
    /\ writers \in [1..MaxWriters -> {Writer(call, "open", FALSE) : call \in WriteCalls}]

\* index_schema with a schema without tables: "if documents:" is false
WriteNothing ==
    /\ \E w \in DOMAIN writers :
        /\ writers[w].step = "open"
        /\ writers[w].method = "index_schema"
        /\ writers[w].schema = {}
        /\ writers' = [writers EXCEPT ![w] = Writer(@, "returned", FALSE)]
    /\ UNCHANGED <<agentVars, valVars, reqVars, cleanVars, rateVars, embeddings, collections, documents,
                   refresh, current, last_call>>

\* PGVector.from_texts / PGVector(...): the collection row is got or created
WriteOpen ==
    /\ \E w \in DOMAIN writers :
        /\ writers[w].step = "open"
        /\ writers[w].method = "index_schema" => writers[w].schema # {}
        /\ collections' = collections \cup {writers[w].connection_id}
        /\ writers' = [writers EXCEPT ![w] = Writer(@, "commit", FALSE)]
    /\ UNCHANGED <<agentVars, valVars, reqVars, cleanVars, rateVars, embeddings, documents, refresh,
                   current, last_call>>

\* index_schema: add_embeddings inserts the documents, or raises
WriteAdd ==
    /\ \E w \in DOMAIN writers :
        /\ writers[w].step = "commit"
        /\ writers[w].method = "index_schema"
        /\ \/ /\ writers[w].connection_id \in collections
              /\ \A t \in writers[w].schema :
                    documents[writers[w].connection_id][t] < MaxWriters
              /\ documents' = [documents EXCEPT ![writers[w].connection_id] =
                      [t \in Tables |-> IF t \in writers[w].schema THEN @[t] + 1 ELSE @[t]]]
              /\ current' = [current EXCEPT ![writers[w].connection_id] =
                                <<writers[w].schema>>]
              /\ writers' = [writers EXCEPT ![w] = Writer(@, "returned", TRUE)]
           \/ /\ writers[w].connection_id \notin collections
              /\ writers' = [writers EXCEPT ![w] = Writer(@, "returned", FALSE)]
              /\ UNCHANGED <<documents, current>>
    /\ UNCHANGED <<agentVars, valVars, reqVars, cleanVars, rateVars, embeddings, collections, refresh,
                   last_call>>

\* delete_schema: delete_collection deletes the row and its documents
WriteDelete ==
    /\ \E w \in DOMAIN writers :
        /\ writers[w].step = "commit"
        /\ writers[w].method = "delete_schema"
        /\ collections' = collections \ {writers[w].connection_id}
        /\ documents' = [documents EXCEPT ![writers[w].connection_id] = NoDocuments]
        /\ current' = [current EXCEPT ![writers[w].connection_id] = None]
        /\ writers' = [writers EXCEPT ![w] = Writer(@, "returned", TRUE)]
    /\ UNCHANGED <<agentVars, valVars, reqVars, cleanVars, rateVars, embeddings, refresh, last_call>>

\* except Exception: a session of the call fails; the call returns False
WriteFails ==
    /\ \E w \in DOMAIN writers :
        /\ writers[w].step \in {"open", "commit"}
        /\ writers[w].method = "index_schema" => writers[w].schema # {}
        /\ writers' = [writers EXCEPT ![w] = Writer(@, "returned", FALSE)]
    /\ UNCHANGED <<agentVars, valVars, reqVars, cleanVars, rateVars, embeddings, collections, documents,
                   refresh, current, last_call>>

WriteNext ==
    \/ WriteNothing
    \/ WriteOpen
    \/ WriteAdd
    \/ WriteDelete
    \/ WriteFails

WriteSpec == WriteInit /\ [][WriteNext]_vars

(***************************************************************************)
(* QueryCleaner (app/utils/query_cleaner.py) applied to a text             *)
(***************************************************************************)
\* a text is at most MaxParts parts, written one after the other
MaxParts == 3

QuotedId == <<BT, "i", "d", BT>>

SelectOne == kwSELECT \o sp \o <<"1">>

TextParts ==
    { SelectUsersLimit,
      SelectOne,
      kwSELECT \o sp,
      QuotedId,
      sp \o kwFROM \o sp \o users,
      <<BT>>,
      fence \o <<"s","q","l">> \o nl,
      nl \o fence,
      <<"-">>,
      <<"/","*","*","/">>,
      sp \o <<"x">> }

RECURSIVE Concat(_)
Concat(ps) == IF ps = <<>> THEN <<>> ELSE Head(ps) \o Concat(Tail(ps))

CleanTexts ==
    {Concat(ps) : ps \in UNION {[1..n -> TextParts] : n \in 0..MaxParts}}

CleanInit ==
    /\ db_type = "postgresql"
    /\ InitialState
    /\ ValIdle
    /\ ReqIdle
    /\ StoreIdle
    /\ RateIdle
    /\ clean_input \in CleanTexts
    /\ clean_op = "none"
    /\ clean_output = None
    /\ clean_previous = None

\* clean_query(clean_input, "postgresql")
CleanQuery ==
    /\ clean_op = "none"
    /\ \E out \in {clean_query(clean_input, db_type)} :
          clean_output' = <<out>>
    /\ clean_op' = "clean_query"
    /\ UNCHANGED <<agentVars, valVars, reqVars, storeVars, rateVars, clean_input,
                   clean_previous>>

\* clean_query applied to the text clean_query returned
CleanAgain ==
    /\ clean_op = "clean_query"
    /\ clean_previous = None
    /\ \E text \in {clean_output[1][1]} :
       \E out \in {clean_query(text, db_type)} :
          clean_output' = <<out>>
    /\ clean_previous' = clean_output
    /\ UNCHANGED <<agentVars, valVars, reqVars, storeVars, rateVars, clean_input,
                   clean_op>>

\* QueryCleaner._extract_from_markdown(clean_input)
ExtractFromMarkdown ==
    /\ clean_op = "none"
    /\ \E out \in {extract_from_markdown(clean_input)} :
          clean_output' = <<<<out, FALSE>>>>
    /\ clean_op' = "_extract_from_markdown"
    /\ UNCHANGED <<agentVars, valVars, reqVars, storeVars, rateVars, clean_input,
                   clean_previous>>

\* QueryCleaner._remove_sql_comments(clean_input)
RemoveSqlComments ==
    /\ clean_op = "none"
    /\ \E out \in {remove_sql_comments(clean_input)} :
          clean_output' = <<<<out, FALSE>>>>
    /\ clean_op' = "_remove_sql_comments"
    /\ UNCHANGED <<agentVars, valVars, reqVars, storeVars, rateVars, clean_input,
                   clean_previous>>

CleanNext ==
    \/ CleanQuery
    \/ CleanAgain
    \/ ExtractFromMarkdown
    \/ RemoveSqlComments

CleanSpec == CleanInit /\ [][CleanNext]_vars

(***************************************************************************)
(* RateLimiter  (app/core/security.py)                                     *)
(***************************************************************************)
\* the limiter is constructed with max_requests in 1..MaxRequests and
\* window_seconds in 1..MaxWindow; time.time() runs from 0 to MaxClock
MaxRequests == 2

MaxWindow == 2

MaxClock == 2

RateInit ==
    /\ db_type = "postgresql"
    /\ InitialState
    /\ ValIdle
    /\ ReqIdle
    /\ StoreIdle
    /\ CleanIdle
    /\ max_requests \in 1..MaxRequests
    /\ window_seconds \in 1..MaxWindow
    /\ requests = [u \in UserIds |-> <<>>]
    /\ clock = 0
    /\ allowed = [u \in UserIds |-> <<>>]
    /\ last_allowed = None

\* [t for t in user_requests if t > window_start]
RECURSIVE recent_requests(_, _)
recent_requests(user_requests, window_start) ==
    IF user_requests = <<>> THEN <<>>
    ELSE IF Head(user_requests) > window_start
    THEN <<Head(user_requests)>> \o recent_requests(Tail(user_requests), window_start)
    ELSE recent_requests(Tail(user_requests), window_start)

\* is_allowed that records the request before it checks the limit
is_allowed_records_first(user_id, current_time) ==
    LET recent == recent_requests(requests[user_id], current_time - window_seconds)
    IN  /\ requests' = [requests EXCEPT ![user_id] = Append(recent, current_time)]
        /\ IF Len(recent) >= max_requests
           THEN /\ allowed' = allowed
                /\ last_allowed' = <<[user_id |-> user_id, returned |-> FALSE]>>
           ELSE /\ allowed' = [allowed EXCEPT ![user_id] = Append(@, current_time)]
                /\ last_allowed' = <<[user_id |-> user_id, returned |-> TRUE]>>

\* is_allowed(user_id) when time.time() returns current_time
is_allowed(user_id, current_time) ==
    LET recent == recent_requests(requests[user_id], current_time - window_seconds)
    IN  IF Len(recent) >= max_requests
        THEN /\ last_allowed' = <<[user_id |-> user_id, returned |-> FALSE]>>
             /\ UNCHANGED <<requests, allowed>>
        ELSE /\ requests' = [requests EXCEPT ![user_id] = Append(recent, current_time)]
             /\ allowed' = [allowed EXCEPT ![user_id] = Append(@, current_time)]
             /\ last_allowed' = <<[user_id |-> user_id, returned |-> TRUE]>>

\* get_remaining(user_id) when time.time() returns current_time
get_remaining(user_id, current_time) ==
    LET recent == recent_requests(requests[user_id], current_time - window_seconds)
    IN  IF max_requests - Len(recent) > 0 THEN max_requests - Len(recent) ELSE 0

IsAllowed ==
    /\ \E user_id \in UserIds : is_allowed(user_id, clock)
    /\ UNCHANGED <<agentVars, valVars, reqVars, storeVars, cleanVars, max_requests,
                   window_seconds, clock>>

\* time passes between two calls
Tick ==
    /\ clock < MaxClock
    /\ clock' = clock + 1
    /\ UNCHANGED <<agentVars, valVars, reqVars, storeVars, cleanVars, max_requests,
                   window_seconds, requests, allowed, last_allowed>>

RateNext ==
    \/ IsAllowed
    \/ Tick

RateSpec == RateInit /\ [][RateNext]_vars

(***************************************************************************)
(* Properties                                                              *)
(***************************************************************************)
Returned == node \in {"returned", "failed"}

LastAttempt == attempts[Len(attempts)]

NoAttemptRaised == \A i \in 1..Len(attempts) : ~attempts[i].raised

\* the VALIDATE step accepts this candidate of this dialect
CandidateValid(candidate, db) ==
    /\ candidate # <<>>
    /\ IF db = "postgresql"
       THEN \E res \in validate(candidate, {}) : res.is_valid
       ELSE json_loads_ok(candidate)

\* the candidate of the i-th generation attempt is accepted
Accepted(i) ==
    /\ ~attempts[i].raised
    /\ CandidateValid(clean_query(attempts[i].raw, db_type)[1], db_type)

\* the message occurs in some entry of the trace
InTrace(m, trace) ==
    \E i \in 1..Len(trace) : \E j \in 1..Len(trace[i].errors) : trace[i].errors[j] = m

\* p occurs in s in some letter case
ContainsAnyCase(p, s) == \E i \in 1..Len(s) : MatchAtCI(p, s, i)

\* C1: the iteration counter of AgentState never exceeds 3, and the
\* iteration count generate_query reports is at most 3, whatever the port
\* returns or raises.
C1_IterationBound ==
    /\ iteration <= max_iterations
    /\ result # None => result[1].iterations <= max_iterations

\* C1 witness: a run in which the port raised has returned after three
\* counted iterations.
C1_Witness ==
    /\ node = "returned"
    /\ result[1].iterations = max_iterations
    /\ ~NoAttemptRaised

\* C2: llm.invoke is called at most 3 times in one run, raising calls
\* included.
C2_AtMostThreeInvocations == llm_calls <= max_iterations

\* C3: every run reaches COMPLETE by the loop's own transitions, whatever
\* the port does: no run is ended from outside the loop, by the recursion
\* limit of workflow.invoke, before the workflow has reached END.
C3_RunEndsInComplete == node # "failed"

\* C4: a run reports success exactly when its last generation attempt
\* produced the candidate that the last VALIDATE step accepted, and then
\* the returned errors are empty; a run that was aborted reports failure.
C4_SuccessIffLastValid ==
    /\ node = "returned" =>
          /\ result[1].success <=>
                /\ ~LastAttempt.raised
                /\ generated_query = clean_query(LastAttempt.raw, db_type)[1]
                /\ CandidateValid(generated_query, db_type)
          /\ result[1].success => result[1].errors = <<>>
    /\ node = "failed" => ~result[1].success

\* C4 witness: a run succeeded after an attempt that raised and an attempt
\* whose candidate was rejected.
C4_Witness ==
    /\ node = "returned"
    /\ result[1].success
    /\ ~NoAttemptRaised
    /\ critic_runs >= 2

\* C5: a result with success=false always reports 3 iterations.
C5_FailureOnlyAtBound ==
    (result # None /\ ~result[1].success) =>
        result[1].iterations = max_iterations

\* C6: when the port never raises and the k-th candidate is the first one
\* accepted, the run ends with success, k iterations, k port calls and k-1
\* critic runs (a missing-limit warning does not prevent it).
C6_FirstAcceptedEndsRun ==
    (Returned /\ NoAttemptRaised) =>
        \A k \in 1..Len(attempts) :
            (k <= max_iterations /\ Accepted(k) /\ \A j \in 1..(k - 1) : ~Accepted(j)) =>
                /\ node = "returned"
                /\ result[1].success
                /\ result[1].iterations = k
                /\ llm_calls = k
                /\ critic_runs = k - 1

\* C6 witness: the second candidate was the first accepted one and carries
\* the missing-limit warning.
C6_Witness ==
    /\ node = "returned"
    /\ NoAttemptRaised
    /\ Len(attempts) = 2
    /\ Accepted(2)
    /\ ~Accepted(1)
    /\ validation_result[1].warnings # <<>>

\* C7: after an attempt that returned the empty string the candidate is
\* empty with plausible=false, the attempt counted as one iteration, and
\* the VALIDATE step (a step of the validator node) fails without calling
\* QueryValidator.validate.
C7_EmptyShortCircuits ==
    [][(/\ node = "validator"
        /\ node' \in {"critic", "END"}
        /\ ~LastAttempt.raised
        /\ LastAttempt.raw = <<>>) =>
          /\ generated_query = <<>>
          /\ ~LastAttempt.plausible
          /\ iteration = LastAttempt.before + 1
          /\ validate_calls' = validate_calls
          /\ ~is_valid'
          /\ validation_result'[1].errors = <<EmptyGenerated>>]_vars

\* C7 witness: VALIDATE has run on the empty candidate of the first attempt.
C7_Witness ==
    /\ node = "critic"
    /\ Len(attempts) = 1
    /\ ~LastAttempt.raised
    /\ LastAttempt.raw = <<>>
    /\ iteration = 1
    /\ validate_calls = 0

\* C8: after an attempt whose non-empty candidate the cleaner marked
\* implausible, the VALIDATE step fails without calling
\* QueryValidator.validate.
C8_ImplausibleShortCircuits ==
    [][(/\ node = "validator"
        /\ node' \in {"critic", "END"}
        /\ ~LastAttempt.raised
        /\ generated_query # <<>>
        /\ ~LastAttempt.plausible) =>
          /\ validate_calls' = validate_calls
          /\ ~is_valid']_vars

\* C9: for every retry of the run, the messages that caused it (the
\* exception message if the attempt raised, the validation errors
\* otherwise) occur in the trace generate_query returns.
C9_RetryErrorsInTrace ==
    result # None =>
        \A i \in 1..Len(retry_causes) :
            IF retry_causes[i].raised
            THEN InTrace(LlmError, result[1].thinking_steps)
            ELSE \A j \in 1..Len(retry_causes[i].errors) :
                    InTrace(retry_causes[i].errors[j], result[1].thinking_steps)

\* C10: validate never returns is_valid=true for a text that contains a
\* forbidden keyword, in any letter case and at any position.
C10_NoForbiddenKeywordApproved ==
    (val_result # None /\ val_result[1].is_valid) =>
        \A kw \in FORBIDDEN_KEYWORDS : ~ContainsAnyCase(kw, val_query)

\* C10 witness: a SELECT that names a keyword in lower case inside an
\* identifier was rejected by the keyword scan.
C10_Witness ==
    /\ val_result # None
    /\ ~val_result[1].is_valid
    /\ val_result[1].errors[1].msg = "Query contains forbidden keyword: {forbidden}"
    /\ ContainsAnyCase(kwUPDATE, val_query)
    /\ ~Contains(kwUPDATE, val_query)

\* C11: for the document dialect no run returns success=true with a
\* candidate that uses one of the operators $merge, $out, $update, $delete,
\* $drop; the VALIDATE step rejects such a candidate.
C11_NoBannedOperatorApproved ==
    (node = "returned" /\ db_type = "mongodb" /\ result[1].success) =>
        \A op \in dangerous_ops : ~Contains(op, generated_query)

\* a statement terminator followed by a DROP or DELETE statement
ChainedDestructive(query) == PatternMatches(1, query) \/ PatternMatches(2, query)

\* the error message reports an injection
ReportsInjection(e) == e.msg = "Potential SQL injection pattern detected: {pattern}"

\* C12: for a text in which a statement terminator is followed by a
\* destructive statement, validate returns is_valid=false and one of the
\* returned error messages reports an injection.
C12_ChainedStatementReportsInjection ==
    (val_result # None /\ ChainedDestructive(val_query)) =>
        /\ ~val_result[1].is_valid
        /\ \E i \in 1..Len(val_result[1].errors) :
              ReportsInjection(val_result[1].errors[i])

\* the layer of validate an error message comes from: 1 emptiness,
\* 2 structural parse, 3 statement type, 4 forbidden keyword, 5 injection
\* pattern, 6 table whitelist
ErrorLayer(e) ==
    CASE e.msg = "Empty query" -> 1
      [] e.msg \in {"Failed to parse SQL query",
                    "Multiple SQL statements detected. Only single statements allowed."} -> 2
      [] e.msg \in {"Could not identify SQL statement type",
                    "Forbidden SQL operation: {first_token}. Only read-only queries allowed."} -> 3
      [] e.msg = "Query contains forbidden keyword: {forbidden}" -> 4
      [] e.msg = "Potential SQL injection pattern detected: {pattern}" -> 5
      [] e.msg = "Table not in whitelist: {table}" -> 6

\* the layers the text fails, each judged on its own
FailingLayers(query0, allowed_tables) ==
    LET query  == strip(query0)
        parsed == sqlparse_parse(query)
    IN  IF query = <<>> THEN {1}
        ELSE IF Len(parsed) # 1 THEN
                {2} \cup (IF ForbiddenFound(query) # {} THEN {4} ELSE {})
                    \cup (IF FirstPattern(query) # 0 THEN {5} ELSE {})
        ELSE (IF get_first_keyword(parsed[1]) = None
                 \/ upper(get_first_keyword(parsed[1])) \notin ALLOWED_STATEMENTS
              THEN {3} ELSE {})
             \cup (IF ForbiddenFound(query) # {} THEN {4} ELSE {})
             \cup (IF FirstPattern(query) # 0 THEN {5} ELSE {})
             \cup (IF NotWhitelisted(parsed[1], allowed_tables) # {} THEN {6} ELSE {})

TablesReferenced(statement) ==
    {statement[k] : k \in {j \in 2..Len(statement) :
                              /\ LexKind(statement[j]) = "name"
                              /\ upper(statement[j - 1]) = kwFROM}}

\* a name of the system catalog
IsSystemCatalog(t) ==
    \/ startswith(lower(t), <<"p","g","_">>)
    \/ startswith(lower(t), <<"i","n","f","o","r","m","a","t","i","o","n","_","s","c","h","e","m","a">>)

\* the text passes every layer before the table whitelist
PassesEarlierLayers(query0) == FailingLayers(query0, {}) = {}

\* C14: with an allow-list, a query that passes the earlier layers is
\* rejected with a table-not-in-whitelist error exactly when it references a
\* table outside the allow-list (letter case ignored) or a system-catalog
\* name; a query that references only allow-listed tables is accepted
\* whatever columns it names.
C14_RejectedIffUnknownTable ==
    (val_result # None /\ val_allowed # {} /\ PassesEarlierLayers(val_query)) =>
        LET tables == TablesReferenced(sqlparse_parse(strip(val_query))[1])
        IN  (~val_result[1].is_valid) <=>
               \E t \in tables :
                  \/ lower(t) \notin {lower(a) : a \in val_allowed}
                  \/ IsSystemCatalog(t)

\* an identifier lexeme is a forbidden keyword, or the text matches an
\* injection pattern
PerformsForbidden(query) ==
    \/ \E k \in 1..Len(Lex(query)) : upper(Lex(query)[k]) \in FORBIDDEN_KEYWORDS
    \/ FirstPattern(query) # 0

\* C15: with no allow-list, validate returns is_valid=true and no errors
\* for every text that is a single SELECT statement, performs no forbidden
\* operation and matches no injection pattern, whatever identifiers it uses.
C15_SafeSelectAccepted ==
    (/\ val_result # None
     /\ val_allowed = {}
     /\ Len(sqlparse_parse(strip(val_query))) = 1
     /\ upper(get_first_keyword(sqlparse_parse(strip(val_query))[1])) = kwSELECT
     /\ ~PerformsForbidden(strip(val_query)))
    => (val_result[1].is_valid /\ val_result[1].errors = <<>>)

\* C16: on the request path every text handed to connector.execute_query
\* of a relational connection is one QueryValidator.validate accepts.
C16_ExecutedOnlyIfValidated ==
    db_type = "postgresql" =>
        \A i \in 1..Len(executed) :
            \E res \in validate(executed[i], {}) : res.is_valid

\* the step is a call of get_relevant_schema
IsQuery == last_call' # last_call /\ last_call'[1].method = "get_relevant_schema"

\* C17: get_relevant_schema returns an empty result and does not raise when
\* the connection id has no index, when the embeddings are not initialised,
\* or when the similarity search fails; the stored documents are left
\* unchanged by such a query.
C17_FailedQueryReturnsEmpty ==
    [][(/\ IsQuery
        /\ \/ Total(documents[last_call'[1].connection_id]) = 0
           \/ ~embeddings
           \/ last_call'[1].failure = "backend")
       => (/\ last_call'[1].returned = {}
           /\ ~last_call'[1].raised
           /\ documents' = documents)]_vars

\* C17 witness: the similarity search failed on a connection id that has
\* an index, and the query returned the empty schema.
C17_Witness ==
    /\ last_call # None
    /\ last_call[1].method = "get_relevant_schema"
    /\ last_call[1].failure = "backend"
    /\ last_call[1].returned = {}
    /\ Total(documents[last_call[1].connection_id]) > 0

\* C18: indexing replaces the prior index of the connection id and is
\* idempotent: after a successful index_schema(id, schema) the collection of
\* id holds exactly one document for each table of schema and nothing else.
C18_IndexReplaces ==
    (/\ last_call # None
     /\ last_call[1].method = "index_schema"
     /\ last_call[1].returned)
    => documents[last_call[1].connection_id] =
          [t \in Tables |-> IF t \in last_call[1].schema THEN 1 ELSE 0]

\* C19: after index_schema(id, schema) succeeded, whatever was done on id
\* before, a query on id with k at least the number of tables of schema
\* returns every table of schema.
C19_QueryComplete ==
    (/\ last_call # None
     /\ last_call[1].method = "get_relevant_schema"
     /\ last_call[1].failure = "none"
     /\ current[last_call[1].connection_id] # None
     /\ last_call[1].k >= Cardinality(current[last_call[1].connection_id][1]))
    => current[last_call[1].connection_id][1] \subseteq last_call[1].returned

\* C20: a query that runs while refresh_schema re-indexes the same
\* connection id sees the complete index of before the refresh or the
\* complete new one, never an empty or partial one.
C20_ReaderSeesOldOrNew ==
    (/\ last_call # None
     /\ last_call[1].method = "get_relevant_schema"
     /\ last_call[1].failure = "none"
     /\ last_call[1].k = default_k
     /\ last_call[1].concurrent # None
     /\ last_call[1].concurrent[1].connection_id = last_call[1].connection_id)
    => last_call[1].returned \in
          {last_call[1].concurrent[1].before, last_call[1].concurrent[1].schema}

\* the stored documents when the call of writer w is the last to take effect
LastWriterWins(w) ==
    [t \in Tables |-> IF t \in writers[w].schema THEN 1 ELSE 0]

\* the writers whose call on connection id c returned True
Succeeded(c) ==
    {w \in DOMAIN writers : writers[w].connection_id = c /\ writers[w].returned}

\* C21: index_schema and delete_schema calls on one connection id exclude
\* each other: when all concurrently issued calls have returned, the documents
\* of the id are those one of the successful calls leaves behind when it runs
\* last (the tables of its schema once each, none after a delete), never a
\* mixture of the tables of two calls.
C21_WritesSerializable ==
    (\A w \in DOMAIN writers : writers[w].step = "returned")
    => \A c \in ConnIds :
          \/ Succeeded(c) = {} /\ documents[c] = NoDocuments
          \/ \E w \in Succeeded(c) : documents[c] = LastWriterWins(w)

\* C22: cleaning is idempotent for the relational dialect: clean_query applied
\* to the text it returned returns that text again with the same flag, and
\* the already clean "SELECT * FROM users LIMIT 10" comes back unchanged with
\* the flag true.
C22_CleanIdempotent ==
    /\ clean_previous # None => clean_output = clean_previous
    /\ (clean_op = "clean_query" /\ clean_input = SelectUsersLimit)
          => clean_output = << <<SelectUsersLimit, TRUE>> >>

\* the text contains a fenced block
HasFencedBlock(text) ==
    \/ FenceSearch(fence \o <<"s","q","l">>, text) # NoMatch
    \/ FenceSearch(fence \o <<"j","s","o","n">>, text) # NoMatch
    \/ FenceSearch(fence, text) # NoMatch

\* the whole text is wrapped in one pair of inline-code delimiters
WhollyWrapped(text) ==
    /\ Len(text) >= 2
    /\ text[1] = BT
    /\ text[Len(text)] = BT
    /\ \A i \in 2..(Len(text) - 1) : text[i] # BT

\* C27: fence extraction has a strict precedence: the content of a fenced
\* block if the text has one; otherwise the inline-code delimiters are
\* stripped only when they wrap the whole text; otherwise the text passes
\* through unchanged, so a query with a backtick-quoted fragment inside it is
\* not reduced to the fragment.
C27_FencePrecedence ==
    (clean_op = "_extract_from_markdown" /\ ~HasFencedBlock(clean_input))
    => clean_output[1][1] =
          IF WhollyWrapped(clean_input)
          THEN strip(SubSeq(clean_input, 2, Len(clean_input) - 1))
          ELSE clean_input

\* C28: the text _remove_sql_comments returns holds no line-comment marker
\* "--".
C28_NoLineCommentMarker ==
    clean_op = "_remove_sql_comments"
    => ~Contains(<<"-","-">>, clean_output[1][1])

C29_EmptyAllowListIsNone ==
    (val_result # None /\ val_arg = <<{}>>) =>
        /\ val_allowed = init_allowed_tables(None)
        /\ val_result[1] \in validate(val_query, init_allowed_tables(None))
        /\ \A i \in 1..Len(val_result[1].errors) :
              val_result[1].errors[i].msg # "Table not in whitelist: {table}"

\* C29 witness: the validator with the empty allow-list accepted a query that
\* reads the table users.
C29_Witness ==
    /\ val_result # None
    /\ val_arg = <<{}>>
    /\ Contains(kwFROM \o sp \o users, val_query)
    /\ val_result[1].is_valid

\* C23: the trace generate_query returns is the whole trace accumulated in
\* AgentState during the run, in order, however the run ends.
C23_FullTraceReturned ==
    result # None => result[1].thinking_steps = thinking_steps

\* s is a prefix of t
IsPrefix(s, t) == Len(s) <= Len(t) /\ SubSeq(t, 1, Len(s)) = s

\* C24: in every transition of the orchestrator the iteration counter does
\* not decrease and the trace keeps its entries as a prefix; the counter
\* starts at 0 and grows by exactly one with each generation attempt, and
\* with nothing else.
C24_CounterAndTraceMonotone ==
    /\ iteration = 0
    /\ [][/\ iteration' >= iteration
          /\ IsPrefix(thinking_steps, thinking_steps')
          /\ iteration' - iteration = llm_calls' - llm_calls]_vars

\* C26: the first generation attempt of a run uses the initial prompt; every
\* later one, entered from the critic, uses the fix prompt, which embeds the
\* candidate that failed and the errors of the latest validation outcome in
\* their order.
C26_PromptForms ==
    [][llm_calls' = llm_calls + 1 =>
          IF llm_calls = 0
          THEN prompt'[1].form = "initial"
          ELSE /\ prompt'[1].form = "fix"
               /\ prompt'[1].candidate = generated_query
               /\ prompt'[1].validation_feedback = validation_result[1].errors]_vars

\* the calls of user_id that returned True with a timestamp t, lo < t <= hi
AllowedIn(user_id, lo, hi) ==
    Cardinality({i \in 1..Len(allowed[user_id]) :
                    allowed[user_id][i] > lo /\ allowed[user_id][i] <= hi})

\* C30 as stated: for every user and every interval of length window_seconds,
\* its two ends included, at most max_requests calls of is_allowed with a
\* timestamp in the interval returned True.
C30_AtMostMaxInClosedWindow ==
    \A u \in UserIds : \A a \in 0..MaxClock :
        AllowedIn(u, a - 1, a + window_seconds) <= max_requests

\* the step is a call of is_allowed that returns False
Denied ==
    /\ clock' = clock
    /\ last_allowed' # None
    /\ ~last_allowed'[1].returned

\* C30, amended: for every user and every interval (a, a + window_seconds],
\* open at its older end, at most max_requests calls of is_allowed with a
\* timestamp in the interval returned True; and a call that returns False
\* leaves the recorded requests of every user unchanged.
C30_AtMostMaxInWindow ==
    /\ [](\A u \in UserIds : \A a \in (0 - MaxWindow - 1)..MaxClock :
             AllowedIn(u, a, a + window_seconds) <= max_requests)
    /\ [][Denied => requests' = requests]_vars

\* C30 witness: a user has used up the limit inside one window and a further
\* call in that window has returned False.
C30_Witness ==
    /\ last_allowed # None
    /\ ~last_allowed[1].returned
    /\ AllowedIn(last_allowed[1].user_id, clock - window_seconds, clock) = max_requests
    /\ get_remaining(last_allowed[1].user_id, clock) = 0
    /\ clock > 0

====
